---- MODULE Spec2Model ----
(***************************************************************************)
(* Model of spyne/model/_base.py: the type-descriptor classes (ModelBase,  *)
(* SimpleModel) with their Attributes / Annotations records, customize(),  *)
(* resolve_namespace(), _decode_pa_dict() and the PushBase sink.           *)
(*                                                                         *)
(* Python values are modelled as strings ("None", "True", "1", "{a}" ...). *)
(* A Python class is a record of its own __dict__ entries (the set `own`   *)
(* names the entries present) plus the index of its single base class;     *)
(* attribute reads walk the base chain like the MRO does.  Mutable dicts   *)
(* live in `heap` and are referred to by index, so that sharing of one     *)
(* dict object between two classes is visible.                             *)
(***************************************************************************)
EXTENDS Integers, Sequences, FiniteSets, TLC

VARIABLES
    classes,            \* Seq: the type descriptors (own class dict + base)
    attrs,              \* Seq: classes[i].Attributes (own class dict)
    annots,             \* Seq: classes[i].Annotations (own class dict)
    heap,               \* Seq: dict objects (translations, column kwargs)
    NULLABLE_DEFAULT,   \* AttributesMeta.NULLABLE_DEFAULT
    last,               \* the last call made on the descriptor world
    nmut,               \* number of client-side mutations made so far
    hist,               \* history: what the client explicitly asked for
    rn,                 \* a resolve_namespace call in progress, frame by frame
    sink,               \* a PushBase instance
    gen,                \* the generator bound to the sink (the producer)
    pcalls,             \* history: the calls made on the sink since init()
    pa,                 \* a _decode_pa_dict call: its argument and result
    ps,                 \* an apply_pssm call: its arguments and result
    vn                  \* a validate_native call: its arguments and result

wvars == <<classes, attrs, annots, heap, NULLABLE_DEFAULT, last, nmut, hist>>
pvars == <<sink, gen, pcalls>>
fvars == <<pa, ps, vn>>
vars == <<classes, attrs, annots, heap, NULLABLE_DEFAULT, last, nmut, hist,
          rn, sink, gen, pcalls, pa, ps, vn>>

----------------------------------------------------------------------------
(* Bounds *)

\* Spec: descriptors in the world (ModelBase and SimpleModel included) and
\* client-side mutations (assignments, in-place dict updates)
MaxClasses == 4
MaxMutations == 1
\* SpecNull: descriptors in the world, and assignments to nullable / nillable
MaxNullClasses == 3
MaxAssignments == 2
\* SpecChain: descriptors in the world
MaxChainClasses == 5
\* SpecResolve: classes of the graph resolve_namespace runs on
MaxNodes == 2
\* SpecPush: append(), close() and init() calls on the sink
MaxAppends == 3
MaxCloses == 1
MaxInits == 1
\* SpecPa: items of the dict given to _decode_pa_dict
MaxEntries == 2

\* SpecValidate: descriptors in the world
MaxValidateClasses == 3
\* SpecPssm: option classes a pssm map can name
MaxOptions == 3

----------------------------------------------------------------------------
(* Python values *)

PyNone == "None"
PyTrue == "True"
PyFalse == "False"

\* spyne.const.xml_ns.DEFAULT_NS: a sentinel namespace, compared with `is`
DEFAULT_NS == "<DEFAULT_NS>"
\* spyne.const.xml_ns.xsd
xsd == "http://www.w3.org/2001/XMLSchema"
\* the keys of spyne.const.xml_ns.const_prefmap (the well-known namespaces)
const_prefmap == {xsd, "http://www.w3.org/2001/XMLSchema-instance"}

\* ModelBase.Empty, the class used as "no type name yet" marker
Empty == "<class Empty>"
\* decimal.Decimal('inf')
DecimalInf == "Decimal('inf')"
\* float('inf')
FloatInf == "float('inf')"

\* The two classes the module defines at import time
ModelBase == 1
SimpleModel == 2

ClassAttrNames == {"__orig__", "__extends__", "__namespace__", "__type_name__"}

\* class ModelBase(object): its own class attributes.  `customized` and
\* `root` are history fields: whether customize() produced the class, and
\* the class the chain of customize() calls started from.
ModelBaseClass ==
    [ kind |-> "ModelBase", base |-> 0, __name__ |-> "ModelBase",
      __module__ |-> <<"spyne", "model", "_base">>,
      own |-> ClassAttrNames,
      __orig__ |-> 0, __extends__ |-> 0,
      __namespace__ |-> PyNone, __type_name__ |-> PyNone,
      customized |-> FALSE, root |-> ModelBase ]

\* class SimpleModel(ModelBase)
SimpleModelClass ==
    [ kind |-> "SimpleModel", base |-> ModelBase, __name__ |-> "SimpleModel",
      __module__ |-> <<"spyne", "model", "_base">>,
      own |-> {"__namespace__"},
      __orig__ |-> 0, __extends__ |-> 0,
      __namespace__ |-> xsd, __type_name__ |-> PyNone,
      customized |-> FALSE, root |-> SimpleModel ]

\* an empty dict object
EmptyDict == [x \in {} |-> ""]

\* sqla_column_args is None or a (positional, keyword) pair: `none` says
\* it is None, `t` is the positional tuple, `d` the heap index of the dict
NoColumnArgs == [none |-> TRUE, t |-> <<>>, d |-> 0]

\* prot_attrs is None or the cdict made by _decode_pa_dict
NoProtAttrs == [none |-> TRUE, m |-> EmptyDict]

\* class ModelBase.Attributes, after AttributesMeta.__new__/__init__ ran
ModelBaseAttributes ==
    [ own |-> {"_nullable", "min_occurs", "max_occurs", "translations",
               "sqla_column_args", "sqla_mapper_args", "prot_attrs"},
      _nullable |-> PyNone,
      min_occurs |-> "0", max_occurs |-> "1", values |-> PyNone,
      type_name |-> PyNone,
      translations |-> 0,
      sqla_column_args |-> NoColumnArgs,
      sqla_mapper_args |-> PyNone,
      prot_attrs |-> NoProtAttrs ]

\* class SimpleModel.Attributes(ModelBase.Attributes), after
\* SimpleModelAttributesMeta.__init__ ran
SimpleModelAttributes ==
    [ ModelBaseAttributes EXCEPT
        !.own = {"_nullable", "values", "sqla_mapper_args"},
        !.values = "{}" ]

\* class ModelBase.Annotations
ModelBaseAnnotations ==
    [own |-> {"doc", "appinfo"}, doc |-> "", appinfo |-> PyNone]

\* a class body that defines nothing (`pass`)
NoAnnotations == [own |-> {}, doc |-> "", appinfo |-> PyNone]

----------------------------------------------------------------------------
(* The descriptor world as one value, and attribute lookup in it *)

World == [classes |-> classes, attrs |-> attrs, annots |-> annots, heap |-> heap]

RECURSIVE Owner(_, _, _, _)
\* the nearest class, from c upwards the base chain (the MRO of single
\* inheritance), whose own dict in w[part] holds f; 0 if none does
Owner(w, part, c, f) ==
    IF c = 0 THEN 0
    ELSE IF f \in w[part][c].own THEN c
    ELSE Owner(w, part, w.classes[c].base, f)

HasAttr(w, part, c, f) == Owner(w, part, c, f) # 0

\* getattr(cls, f)
ClsGet(w, c, f) == w.classes[Owner(w, "classes", c, f)][f]
\* getattr(cls.Attributes, f) for a plain class attribute
AttrGet(w, c, f) == w.attrs[Owner(w, "attrs", c, f)][f]
\* getattr(cls.Annotations, f)
AnnotGet(w, c, f) == w.annots[Owner(w, "annots", c, f)][f]

\* setattr(cls.Attributes, f, v) for a plain class attribute
AttrSet(w, c, f, v) ==
    [w EXCEPT !.attrs[c] = [@ EXCEPT ![f] = v, !.own = @ \cup {f}]]

\* setattr(cls, f, v)
ClsSet(w, c, f, v) ==
    [w EXCEPT !.classes[c] = [@ EXCEPT ![f] = v, !.own = @ \cup {f}]]

----------------------------------------------------------------------------
(* AttributesMeta: the nullable / nillable alias pair *)

\* AttributesMeta.get_nullable
get_nullable(w, c) ==
    IF AttrGet(w, c, "_nullable") # PyNone
        THEN AttrGet(w, c, "_nullable")
        ELSE NULLABLE_DEFAULT

\* AttributesMeta.set_nullable
set_nullable(w, c, what) == AttrSet(w, c, "_nullable", what)

\* AttributesMeta.get_nillable
get_nillable(w, c) == get_nullable(w, c)

\* A faulty set_nillable: the assignment never reaches the storage that
\* nullable reads
set_nillable_unlinked(w, c, what) == w

\* AttributesMeta.set_nillable
set_nillable(w, c, what) == set_nullable(w, c, what)

\* AttributesMeta.__new__: sqla_mapper_args is not inherited
AttributesMeta_new(w, c) ==
    IF "sqla_mapper_args" \in w.attrs[c].own
        THEN w
        ELSE AttrSet(w, c, "sqla_mapper_args", PyNone)

\* AttributesMeta.__init__, lines 76-82: _nullable from the class body
NullableFromBody(w, c, nullable, nillable) ==
    IF nullable # PyNone THEN AttrSet(w, c, "_nullable", nullable)
    ELSE IF nillable # PyNone THEN AttrSet(w, c, "_nullable", nillable)
    ELSE w

\* AttributesMeta.__init__, lines 84-85
NullableOrNone(w, c) ==
    IF ~HasAttr(w, "attrs", c, "_nullable") \/ AttrGet(w, c, "_nullable") = PyNone
        THEN AttrSet(w, c, "_nullable", PyNone)
        ELSE w

\* the assert statements of AttributesMeta.__init__ fail
AliasesConflict(nullable, nillable) ==
    nullable # PyNone /\ ~(nillable = PyNone \/ nullable = nillable)

\* AttributesMeta.__new__ and __init__ on the Attributes class of c, whose
\* class body gave `nullable` and `nillable` (PyNone when the body has
\* none).  Yields [exc, w].
AttributesMeta_init(w, c, nullable, nillable) ==
    IF AliasesConflict(nullable, nillable)
        THEN [exc |-> "AssertionError", w |-> w]
        ELSE [exc |-> "",
              w |-> NullableOrNone(
                        NullableFromBody(AttributesMeta_new(w, c), c, nullable, nillable),
                        c)]

----------------------------------------------------------------------------
(* _decode_pa_dict *)

\* A dict is given as the sequence of its items in iteration order, each
\* [key, val]; keys are distinct.  A key is [kind, elems]: kind "plain"
\* (elems = <<identifier>>), "tuple" (elems = the members in order) or
\* "frozenset" (elems = the members, in a canonical order).
PlainKey(id) == [kind |-> "plain", elems |-> <<id>>]

\* isinstance(k, tuple)
IsTuple(k) == k.kind = "tuple"

\* retval[k] = v on the dict retval (a function from keys to values)
DictSet(retval, k, v) == (k :> v) @@ retval

RECURSIVE SetMembers(_, _, _, _)
\* for subk in k: retval[subk] = v, from member i on
SetMembers(retval, elems, v, i) ==
    IF i > Len(elems) THEN retval
    ELSE SetMembers(DictSet(retval, PlainKey(elems[i]), v), elems, v, i + 1)

RECURSIVE ExpandTuples(_, _, _)
\* the first loop: for k, v in d.items(): if isinstance(k, tuple): ...
ExpandTuples(retval, d, i) ==
    IF i > Len(d) THEN retval
    ELSE ExpandTuples(IF IsTuple(d[i].key)
                          THEN SetMembers(retval, d[i].key.elems, d[i].val, 1)
                          ELSE retval,
                      d, i + 1)

RECURSIVE ApplyPlain_keeps_expanded(_, _, _)
\* A faulty second loop: a plain key does not overwrite the value a tuple
\* member already put there
ApplyPlain_keeps_expanded(retval, d, i) ==
    IF i > Len(d) THEN retval
    ELSE ApplyPlain_keeps_expanded(
            IF ~IsTuple(d[i].key) /\ d[i].key \notin DOMAIN retval
                THEN DictSet(retval, d[i].key, d[i].val)
                ELSE retval,
            d, i + 1)

RECURSIVE ApplyPlain(_, _, _)
\* the second loop: for k, v in d.items(): if not isinstance(k, tuple): ...
ApplyPlain(retval, d, i) ==
    IF i > Len(d) THEN retval
    ELSE ApplyPlain(IF ~IsTuple(d[i].key)
                        THEN DictSet(retval, d[i].key, d[i].val)
                        ELSE retval,
                    d, i + 1)

_decode_pa_dict(d) == ApplyPlain(ExpandTuples(EmptyDict, d, 1), d, 1)

----------------------------------------------------------------------------
(* ModelBase.resolve_namespace *)

\* str.startswith('_') on the names the model uses (module path segments
\* and keyword names)
StartsWithUnderscore(f) ==
    f \in {"_base", "__main__", "_wrapper", "__namespace__"}

RECURSIVE ModuleFields(_, _)
\* the loop over cls.__module__.split('.'): the segments before the first
\* one that starts with an underscore
ModuleFields(parts, i) ==
    IF i > Len(parts) THEN <<>>
    ELSE IF StartsWithUnderscore(parts[i]) THEN <<>>
    ELSE <<parts[i]>> \o ModuleFields(parts, i + 1)

\* '.'.join(ret) for the module paths of the model
Join(ret) ==
    CASE ret = <<>> -> ""
      [] ret = <<"spyne">> -> "spyne"
      [] ret = <<"spyne", "model">> -> "spyne.model"
      [] ret = <<"app">> -> "app"
      [] OTHER -> "<joined>"

\* ModelBase.is_default / SimpleModel.is_default, as cls.is_default(cls)
\* finds them
is_default(w, c) ==
    IF w.classes[c].kind = "SimpleModel"
        THEN AttrGet(w, c, "values") = AttrGet(w, SimpleModel, "values")
        ELSE TRUE

\* is None or len(...) == 0
NoneOrEmpty(ns) == ns = PyNone \/ ns = ""

Namespace(w, c) == ClsGet(w, c, "__namespace__")
SetNamespace(w, c, v) == ClsSet(w, c, "__namespace__", v)

\* lines 320-321: the sentinel becomes default_ns
SentinelToDefault(w, c, default_ns) ==
    IF Namespace(w, c) = DEFAULT_NS THEN SetNamespace(w, c, default_ns) ELSE w

\* A faulty reclaim: is_default() is not consulted
ReclaimReserved_any_class(w, c, default_ns) ==
    IF Namespace(w, c) \in const_prefmap
        THEN SetNamespace(w, c, default_ns) ELSE w

\* lines 323-325: a well-known namespace on a non-default class
ReclaimReserved(w, c, default_ns) ==
    IF Namespace(w, c) \in const_prefmap /\ ~is_default(w, c)
        THEN SetNamespace(w, c, default_ns) ELSE w

\* lines 327-335: the namespace from the module path
FromModule(w, c) ==
    IF Namespace(w, c) = PyNone
        THEN SetNamespace(w, c, Join(ModuleFields(w.classes[c].__module__, 1)))
        ELSE w

\* lines 337-338
FallBackToDefault(w, c, default_ns) ==
    IF NoneOrEmpty(Namespace(w, c)) THEN SetNamespace(w, c, default_ns) ELSE w

\* A faulty check: an unresolved namespace is let through
CheckResolved_silent(w, c) == [w |-> w, exc |-> ""]

\* lines 340-341
CheckResolved(w, c) ==
    [w |-> w, exc |-> IF NoneOrEmpty(Namespace(w, c)) THEN "ValueError" ELSE ""]

\* The body of resolve_namespace on one class, between the visited-set
\* guard and the recursion into __extends__.  Yields [w, exc].
resolve_body(w, c, default_ns) ==
    CheckResolved(
        FallBackToDefault(
            FromModule(
                ReclaimReserved(SentinelToDefault(w, c, default_ns), c, default_ns),
                c),
            c, default_ns),
        c)

\* `tags` is None or a set of classes
NoTags == [none |-> TRUE, s |-> {}]
Tags(s) == [none |-> FALSE, s |-> s]

\* A resolve_namespace call, as the frame that is about to run: pc is
\* "run" while a frame is to be entered, "done" once the outermost call
\* returned, "raised" once an exception left it.  cls, default_ns and tags
\* are the arguments of the frame to be entered, depth the number of frames
\* below it, ret the value the outermost call returned; visits lists the
\* classes whose frames got past the visited-set guard and was the
\* namespace each of them read when its frame was entered (history).
NoResolve ==
    [ pc |-> "idle", cls |-> 0, default_ns |-> PyNone, tags |-> NoTags,
      depth |-> 0, ret |-> "", exc |-> "", visits |-> <<>>, was |-> <<>> ]

\* entering resolve_namespace(cls, default_ns): tags defaults to None
ResolveCall(c, default_ns) ==
    [NoResolve EXCEPT !.pc = "run", !.cls = c, !.default_ns = default_ns]

\* A faulty guard: the visited set is never consulted
Revisit_unguarded(r) == FALSE

\* lines 314-318: the frame is short-circuited
Revisit(r) == ~r.tags.none /\ r.cls \in r.tags.s

\* line 318: tags.add(cls)
Visit(r) ==
    [r EXCEPT !.tags = Tags(r.tags.s \cup {r.cls}), !.visits = Append(@, r.cls)]

\* lines 340-346: after the body b of the frame r ran
AfterBody(r, b) ==
    IF b.exc # ""
        THEN [w |-> b.w, rn |-> [r EXCEPT !.pc = "raised", !.exc = b.exc]]
    ELSE IF ClsGet(b.w, r.cls, "__extends__") # 0
        THEN [w |-> b.w,
              rn |-> [r EXCEPT !.cls = ClsGet(b.w, r.cls, "__extends__"),
                               !.depth = @ + 1]]
    ELSE [w |-> b.w, rn |-> [r EXCEPT !.pc = "done", !.ret = PyTrue]]

\* One frame of resolve_namespace: from its entry to the recursive call
\* (or to its return, which makes every frame below return True: a caller
\* does nothing after the recursive call but `return True`).
\* Yields [w, rn].
resolve_frame(w, r) ==
    IF Revisit(r)
        THEN [w |-> w,
              rn |-> [r EXCEPT !.pc = "done",
                               !.ret = IF r.depth = 0 THEN PyFalse ELSE PyTrue]]
        ELSE CHOOSE x \in {AfterBody(Visit(r), b) :
                            b \in {resolve_body(w, r.cls, r.default_ns)}} : TRUE

RECURSIVE RunFrames(_)
\* a resolve_namespace call run to its end, from x = [w, rn]
RunFrames(x) ==
    IF x.rn.pc # "run" THEN x ELSE RunFrames(resolve_frame(x.w, x.rn))

CallResult(x) == [w |-> x.w, exc |-> x.rn.exc, ret |-> x.rn.ret]

\* resolve_namespace(cls, default_ns) as one call.  Yields [w, exc, ret].
resolve_namespace(w, c, default_ns) ==
    CallResult(RunFrames([w |-> w, rn |-> ResolveCall(c, default_ns)]))

----------------------------------------------------------------------------
(* ModelBase.get_type_name *)

\* cls.get_type_name()
get_type_name(w, c) ==
    IF ClsGet(w, c, "__type_name__") = PyNone
        THEN w.classes[c].__name__
        ELSE ClsGet(w, c, "__type_name__")

----------------------------------------------------------------------------
(* customize *)

\* A keyword argument: k its name, v its value; d is the dict passed as
\* value when k is prot_attrs or pa (<<>> otherwise).
KW(k, v) == [k |-> k, v |-> v, d |-> <<>>]
KWD(k, d) == [k |-> k, v |-> "<dict>", d |-> d]

RECURSIVE KwGet(_, _, _, _)
\* kwargs.get(k, default)
KwGet(kw, k, default, i) ==
    IF i > Len(kw) THEN default
    ELSE IF kw[i].k = k THEN kw[i].v
    ELSE KwGet(kw, k, default, i + 1)

\* A faulty membership test: only the word 'unbounded' is recognised
MeansUnbounded_word_only(v) == v = "unbounded"

\* v in ('unbounded', 'inf', float('inf')): membership by ==, and
\* Decimal('inf') == float('inf')
MeansUnbounded(v) == v \in {"unbounded", "inf", FloatInf, DecimalInf}

\* sqlalchemy.schema.ForeignKey(v)
ForeignKey(v) == <<"ForeignKey", v>>

\* Attributes.sqla_column_args[-1][k] = v
ColumnKwSet(w, n, k, v) ==
    [w EXCEPT !.heap[AttrGet(w, n, "sqla_column_args").d] = (k :> v) @@ @]

\* A faulty setattr: the override lands on the caller's Attributes (the
\* base of the new class) instead of the new class's own
SetAttributesAttr_on_caller(w, n, k, v) ==
    IF k = "nullable" THEN set_nullable(w, n, v)
    ELSE IF k = "nillable" THEN set_nullable(w, n, v)
    ELSE AttrSet(w, w.classes[n].base, k, v)

\* setattr(Attributes, k, v): nullable and nillable are properties of the
\* metaclass, every other name lands in the class dict
SetAttributesAttr(w, n, k, v) ==
    IF k = "nullable" THEN set_nullable(w, n, v)
    ELSE IF k = "nillable" THEN set_nillable(w, n, v)
    ELSE AttrSet(w, n, k, v)

\* lines 451-453: Attributes.sqla_column_args = (t + fkt, d)
AddForeignKey(w, n, a, v) ==
    AttrSet(w, n, "sqla_column_args", [a EXCEPT !.t = Append(@, ForeignKey(v))])

\* one round of the loop `for k, v in kwargs.items()` of _s_customize
ApplyKwarg(w, n, e) ==
    IF StartsWithUnderscore(e.k) THEN w
    ELSE IF e.k \in {"doc", "appinfo"}
        THEN [w EXCEPT !.annots[n] = [@ EXCEPT ![e.k] = e.v, !.own = @ \cup {e.k}]]
    ELSE IF e.k \in {"primary_key", "pk"}
        THEN ColumnKwSet(w, n, "primary_key", e.v)
    ELSE IF e.k \in {"prot_attrs", "pa"}
        THEN AttrSet(w, n, "prot_attrs", [none |-> FALSE, m |-> _decode_pa_dict(e.d)])
    ELSE IF e.k \in {"foreign_key", "fk"}
        THEN AddForeignKey(w, n, AttrGet(w, n, "sqla_column_args"), e.v)
    ELSE IF e.k \in {"autoincrement", "onupdate", "server_default"}
        THEN ColumnKwSet(w, n, e.k, e.v)
    ELSE IF e.k = "max_occurs" /\ MeansUnbounded(e.v)
        THEN SetAttributesAttr(w, n, e.k, DecimalInf)
    ELSE SetAttributesAttr(w, n, e.k, e.v)

RECURSIVE ApplyKwargs(_, _, _, _)
ApplyKwargs(w, n, kw, i) ==
    IF i > Len(kw) THEN w
    ELSE ApplyKwargs(ApplyKwarg(w, n, kw[i]), n, kw, i + 1)

\* A faulty class dict: __orig__ is always the caller, whatever the
\* caller's own __orig__ is
CustomizedClass_orig_is_caller(w, c) ==
    [ kind |-> w.classes[c].kind, base |-> c,
      __name__ |-> w.classes[c].__name__,
      __module__ |-> w.classes[c].__module__,
      own |-> {"__orig__"},
      __orig__ |-> c,
      __extends__ |-> 0,
      __namespace__ |-> PyNone, __type_name__ |-> PyNone,
      customized |-> TRUE, root |-> w.classes[c].root ]

\* the class dict _s_customize builds, as the class type() makes of it
CustomizedClass(w, c) ==
    [ kind |-> w.classes[c].kind, base |-> c,
      __name__ |-> w.classes[c].__name__,
      __module__ |-> w.classes[c].__module__,
      own |-> IF ClsGet(w, c, "__orig__") = 0 THEN {"__orig__"} ELSE {},
      __orig__ |-> IF ClsGet(w, c, "__orig__") = 0 THEN c ELSE 0,
      __extends__ |-> 0,
      __namespace__ |-> PyNone, __type_name__ |-> PyNone,
      customized |-> TRUE, root |-> w.classes[c].root ]

\* `class Attributes(cls.Attributes): pass` before the metaclass ran
EmptyAttributes == [ModelBaseAttributes EXCEPT !.own = {}]

\* the world with a new class derived from c as its last class
NewClass(w, c) ==
    [w EXCEPT !.classes = Append(@, CustomizedClass(w, c)),
              !.attrs = Append(@, EmptyAttributes),
              !.annots = Append(@, NoAnnotations)]

\* a new dict object {}: it gets heap index Len(w.heap) + 1
NewDict(w) == [w EXCEPT !.heap = Append(@, EmptyDict)]

\* lines 421-422
InitTranslations(w, c, n) ==
    IF AttrGet(w, c, "translations") = 0
        THEN AttrSet(NewDict(w), n, "translations", Len(w.heap) + 1)
        ELSE w

\* lines 423-424
InitColumnArgs(w, c, n) ==
    IF AttrGet(w, c, "sqla_column_args").none
        THEN AttrSet(NewDict(w), n, "sqla_column_args",
                     [none |-> FALSE, t |-> <<>>, d |-> Len(w.heap) + 1])
        ELSE w

\* line 430: Attributes.nillable = cls.Attributes.nillable
CopyNillable(w, c, n) == set_nillable(w, n, get_nillable(w, c))

\* lines 418-434: the Attributes and Annotations classes of the new class n
DeriveRecords(w, c, n) ==
    CopyNillable(
        InitColumnArgs(
            InitTranslations(AttributesMeta_init(w, n, PyNone, PyNone).w, c, n),
            c, n),
        c, n)

\* ModelBase._s_customize followed by type(cls_name, cls_bases, cls_dict):
\* yields the world with the new class as its last class
_s_customize(w, c, kw) ==
    ApplyKwargs(DeriveRecords(NewClass(w, c), c, Len(w.classes) + 1),
                Len(w.classes) + 1, kw, 1)

\* ModelBase.customize.  Yields [w, exc, ret].
ModelBase_customize(w, c, kw) ==
    [w |-> _s_customize(w, c, kw), exc |-> "", ret |-> Len(w.classes) + 1]

\* the world after a call that made class n and then raised: the class is
\* never bound to a name, what the call did to older objects stays
Discard(w, n, heaplen) ==
    [w EXCEPT !.classes = SubSeq(@, 1, n - 1),
              !.attrs = SubSeq(@, 1, n - 1),
              !.annots = SubSeq(@, 1, n - 1),
              !.heap = SubSeq(@, 1, heaplen)]

\* lines 547-549
SetExtends(w, c, n, kw) ==
    IF ~is_default(w, n)
        THEN ClsSet(ClsSet(w, n, "__extends__", c), n, "__type_name__",
                    KwGet(kw, "type_name", Empty, 1))
        ELSE w

\* lines 551-553, r the outcome of the resolve_namespace call
ReturnResolved(r, n, heaplen) ==
    IF r.exc # ""
        THEN [w |-> Discard(r.w, n, heaplen), exc |-> r.exc, ret |-> 0]
        ELSE [w |-> r.w, exc |-> "", ret |-> n]

\* SimpleModel.customize.  Yields [w, exc, ret].
SimpleModel_customize(w, c, kw) ==
    ReturnResolved(
        resolve_namespace(SetExtends(_s_customize(w, c, kw), c, Len(w.classes) + 1, kw),
                          Len(w.classes) + 1,
                          KwGet(kw, "__namespace__", PyNone, 1)),
        Len(w.classes) + 1, Len(w.heap))

\* cls.customize(**kwargs), as the class finds it
customize(w, c, kw) ==
    IF w.classes[c].kind = "SimpleModel"
        THEN SimpleModel_customize(w, c, kw)
        ELSE ModelBase_customize(w, c, kw)

----------------------------------------------------------------------------
(* validate_native *)

\* the members of a value set, as the model writes sets
SetOf(values) ==
    CASE values = "{a}" -> {"a"}
      [] values = "{a,b}" -> {"a", "b"}
      [] OTHER -> {}

\* a native value that cannot be hashed (a list)
UnhashableNative(value) == value = "[a]"

\* bool(x) as a Python value
PyBool(b) == IF b THEN PyTrue ELSE PyFalse

\* ModelBase.validate_native: cls.Attributes.nullable or value is not None
ModelBase_validate_native(w, c, value) ==
    IF get_nullable(w, c) = PyTrue THEN PyTrue ELSE PyBool(value # PyNone)

\* lines 562-566, once the base rule held: the checks on
\* cls.Attributes.values, left to right.  Yields [ret, exc].
ValuesRule(values, nillable, value) ==
    IF values = PyNone THEN [ret |-> PyTrue, exc |-> ""]
    ELSE IF SetOf(values) = {} THEN [ret |-> PyTrue, exc |-> ""]
    ELSE IF value = PyNone THEN [ret |-> nillable, exc |-> ""]
    ELSE IF UnhashableNative(value) THEN [ret |-> "", exc |-> "TypeError"]
    ELSE [ret |-> PyBool(value \in SetOf(values)), exc |-> ""]

\* SimpleModel.validate_native.  Yields [ret, exc].
SimpleModel_validate_native(w, c, value) ==
    IF ModelBase_validate_native(w, c, value) # PyTrue
        THEN [ret |-> PyFalse, exc |-> ""]
        ELSE ValuesRule(AttrGet(w, c, "values"), get_nillable(w, c), value)

\* cls.validate_native(cls, value), as the class finds it
validate_native(w, c, value) ==
    IF w.classes[c].kind = "SimpleModel"
        THEN SimpleModel_validate_native(w, c, value)
        ELSE [ret |-> ModelBase_validate_native(w, c, value), exc |-> ""]

----------------------------------------------------------------------------
(* History: what the client asked for, kept beside the program state *)

PlainKeys == {"min_occurs", "max_occurs", "values", "type_name"}

RECURSIVE LastOf(_, _, _, _)
\* the value of the last keyword of kw whose name is in `names`
LastOf(kw, names, default, i) ==
    IF i > Len(kw) THEN default
    ELSE LastOf(kw, names, IF kw[i].k \in names THEN kw[i].v ELSE default, i + 1)

\* an override value as the client reads it back: every spelling of an
\* unbounded max_occurs stands for Decimal('inf')
Asked(k, v) == IF k = "max_occurs" /\ MeansUnbounded(v) THEN DecimalInf ELSE v

\* the plain constraint values a chain of overrides asks for: the latest
\* override of each key, else what the caller had
ExpectAfter(expect, kw) ==
    [k \in PlainKeys |-> Asked(k, LastOf(kw, {k}, expect[k], 1))]

ModelBaseHist ==
    [ nullability |-> "unset", kw |-> <<>>,
      expect |-> [k \in PlainKeys |->
                    CASE k = "min_occurs" -> "0"
                      [] k = "max_occurs" -> "1"
                      [] OTHER -> "<no attribute>"] ]

SimpleModelHist == [ModelBaseHist EXCEPT !.expect["values"] = "{}"]

----------------------------------------------------------------------------
(* Inputs *)

\* a dict passed as prot_attrs / pa
PaSample == << [key |-> [kind |-> "tuple", elems |-> <<"a", "b">>], val |-> "1"],
               [key |-> PlainKey("a"), val |-> "2"] >>

\* the keyword-argument lists customize() is called with
Kwargs ==
    { <<>>,
      <<KW("_wrapper", PyTrue)>>,
      <<KW("doc", "text")>>,
      <<KW("pk", PyTrue)>>,
      <<KWD("pa", PaSample)>>,
      <<KW("fk", "t.id")>>,
      <<KW("autoincrement", PyTrue)>>,
      <<KW("max_occurs", "unbounded")>>,
      <<KW("max_occurs", FloatInf)>>,
      <<KW("max_occurs", "2")>>,
      <<KW("min_occurs", "1")>>,
      <<KW("values", "{a}")>>,
      <<KW("values", "{}")>>,
      <<KW("type_name", "T")>>,
      <<KW("nullable", PyFalse)>>,
      <<KW("nillable", PyFalse)>>,
      <<KW("nillable", PyTrue)>>,
      <<KW("nullable", PyTrue), KW("nillable", PyFalse)>>,
      <<KW("nillable", PyTrue), KW("nullable", PyFalse)>>,
      <<KW("values", "{a}"), KW("__namespace__", xsd)>>,
      <<KW("values", "{a}"), KW("__namespace__", "")>>,
      <<KW("__namespace__", "tns")>> }

----------------------------------------------------------------------------
(* The descriptor world: initial state and operations *)

NoCall == [op |-> "", cls |-> 0, kw |-> <<>>, ret |-> 0, exc |-> ""]

InitWorld ==
    /\ classes = <<ModelBaseClass, SimpleModelClass>>
    /\ attrs = <<ModelBaseAttributes, SimpleModelAttributes>>
    /\ annots = <<ModelBaseAnnotations, NoAnnotations>>
    /\ heap = <<>>
    /\ NULLABLE_DEFAULT = PyTrue
    /\ last = NoCall
    /\ nmut = 0
    /\ hist = <<ModelBaseHist, SimpleModelHist>>

SetWorld(w) ==
    /\ classes' = w.classes
    /\ attrs' = w.attrs
    /\ annots' = w.annots
    /\ heap' = w.heap

\* the program state and the history after a call that made a class
\* (r = [w, exc, ret]); h is the history entry of the class
Called(op, c, kw, r, h) ==
    /\ SetWorld(r.w)
    /\ last' = [op |-> op, cls |-> c, kw |-> kw, ret |-> r.ret, exc |-> r.exc]
    /\ hist' = IF r.exc # "" THEN hist ELSE Append(hist, h)
    /\ UNCHANGED <<NULLABLE_DEFAULT, nmut, rn, pvars, fvars>>

\* cls.customize(**kw)
Customize(c, kw) ==
    Called("customize", c, kw, customize(World, c, kw),
           [ nullability |-> LastOf(kw, {"nullable", "nillable"}, "unset", 1),
             kw |-> kw,
             expect |-> ExpectAfter(hist[c].expect, kw) ])

\* the class of a class statement `class New(ModelBase)` in module __main__
NewModelClass(n) ==
    [ModelBaseClass EXCEPT !.base = ModelBase, !.own = {}, !.__name__ = "New",
                           !.__module__ = <<"__main__">>, !.root = n]

DefineResult(r, n) ==
    IF r.exc # "" THEN [w |-> World, exc |-> r.exc, ret |-> 0]
    ELSE [w |-> r.w, exc |-> "", ret |-> n]

\* A class statement
\*     class New(ModelBase):
\*         class Attributes(ModelBase.Attributes):
\*             nullable = ...; nillable = ...
\* (PyNone: the body does not name it)
Define(nullable, nillable) ==
    Called("define", ModelBase,
           <<KW("nullable", nullable), KW("nillable", nillable)>>,
           DefineResult(
               AttributesMeta_init(
                   [World EXCEPT !.classes = Append(@, NewModelClass(Len(classes) + 1)),
                                 !.attrs = Append(@, EmptyAttributes),
                                 !.annots = Append(@, NoAnnotations)],
                   Len(classes) + 1, nullable, nillable),
               Len(classes) + 1),
           [ nullability |-> IF nullable # PyNone THEN nullable
                             ELSE IF nillable # PyNone THEN nillable
                             ELSE "unset",
             kw |-> <<>>,
             expect |-> hist[ModelBase].expect ])

Mutation(op, c, v) ==
    /\ nmut' = nmut + 1
    /\ UNCHANGED <<rn, pvars, fvars>>
    /\ last' = [op |-> op, cls |-> c, kw |-> <<KW(op, v)>>, ret |-> 0, exc |-> ""]

\* cls.Attributes.nullable = what
SetNullable(c, what) ==
    /\ Mutation("nullable=", c, what)
    /\ SetWorld(set_nullable(World, c, what))
    /\ hist' = [hist EXCEPT ![c].nullability = what]
    /\ UNCHANGED NULLABLE_DEFAULT

\* cls.Attributes.nillable = what
SetNillable(c, what) ==
    /\ Mutation("nillable=", c, what)
    /\ SetWorld(set_nillable(World, c, what))
    /\ hist' = [hist EXCEPT ![c].nullability = what]
    /\ UNCHANGED NULLABLE_DEFAULT

\* cls.Attributes.translations[locale] = "text"
MutateTranslations(c, locale) ==
    /\ AttrGet(World, c, "translations") # 0
    /\ Mutation("translations[]=", c, locale)
    /\ heap' = [heap EXCEPT ![AttrGet(World, c, "translations")] =
                                (locale :> "text") @@ @]
    /\ UNCHANGED <<classes, attrs, annots, NULLABLE_DEFAULT, hist>>

\* cls.Attributes.sqla_column_args[-1][k] = True
MutateColumnArgs(c, k) ==
    /\ ~AttrGet(World, c, "sqla_column_args").none
    /\ Mutation("sqla_column_args[-1][]=", c, k)
    /\ SetWorld(ColumnKwSet(World, c, k, PyTrue))
    /\ UNCHANGED <<NULLABLE_DEFAULT, hist>>

\* AttributesMeta.NULLABLE_DEFAULT = v
SetNullableDefault(v) ==
    /\ v # NULLABLE_DEFAULT
    /\ Mutation("NULLABLE_DEFAULT=", 0, v)
    /\ NULLABLE_DEFAULT' = v
    /\ UNCHANGED <<classes, attrs, annots, heap, hist>>

----------------------------------------------------------------------------
(* resolve_namespace, frame by frame, on a graph of defined classes *)

\* A class statement
\*     class T(SimpleModel):
\*         __namespace__ = ns
\*         __extends__ = ext
\*         class Attributes(SimpleModel.Attributes): values = ...
\* in module __main__; n is the index the class gets
DefinedClass(n, ns, ext) ==
    [SimpleModelClass EXCEPT
        !.base = SimpleModel, !.__name__ = "T", !.__module__ = <<"__main__">>,
        !.own = {"__namespace__", "__extends__"},
        !.__namespace__ = ns, !.__extends__ = ext, !.root = n]

DefinedAttributes(values) ==
    IF values = PyNone
        THEN [EmptyAttributes EXCEPT !.own = {"_nullable", "sqla_mapper_args"}]
        ELSE [EmptyAttributes EXCEPT
                !.own = {"_nullable", "sqla_mapper_args", "values"},
                !.values = values]

\* the program calls resolve_namespace(c, default_ns)
ResolveStart(c, default_ns) ==
    /\ rn.pc = "idle"
    /\ rn' = ResolveCall(c, default_ns)
    /\ last' = [op |-> "resolve_namespace", cls |-> c,
                kw |-> <<KW("default_ns", default_ns)>>, ret |-> 0, exc |-> ""]
    /\ UNCHANGED <<classes, attrs, annots, heap, NULLABLE_DEFAULT, nmut, hist,
                   pvars, fvars>>

ResolveStepTo(x) ==
    /\ SetWorld(x.w)
    /\ rn' = [x.rn EXCEPT !.was =
                IF Len(x.rn.visits) > Len(rn.visits)
                    THEN Append(@, Namespace(World, rn.cls)) ELSE @]

\* the call runs its next frame
ResolveStep ==
    /\ rn.pc = "run"
    /\ \E x \in {resolve_frame(World, rn)} : ResolveStepTo(x)
    /\ UNCHANGED <<NULLABLE_DEFAULT, last, nmut, hist, pvars, fvars>>

----------------------------------------------------------------------------
(* PushBase *)

\* PushBase.__init__: gen is None, nothing bound, no construction callback.
\* `finished` counts the invocations of the bound _cb_finish, `inits` the
\* init() calls, `ret` and `exc` are what the last init() call returned and
\* raised (history).
NewSink ==
    [ _cb |-> PyNone, bound |-> FALSE, length |-> 0, finished |-> 0,
      inits |-> 0, ret |-> PyNone, exc |-> "" ]

\* PushBase(callback=cb).  The callbacks of the model: "append" is
\* `lambda sink: sink.append("x") or "deferred"`, "return" is
\* `lambda sink: "deferred"`, "raise" raises Error.
PushBase_new(cb) == [NewSink EXCEPT !._cb = cb]

\* The producer: a generator object.  state is "none" (no generator bound),
\* "unstarted" (created, never resumed), "suspended" (waiting at a yield) or
\* "finished"; received lists the values its yield expressions evaluated to.
NoGen == [state |-> "none", received |-> <<>>]

\* the exceptions close() swallows: (Break, StopIteration, GeneratorExit)
Swallowed == {"Break", "StopIteration", "GeneratorExit"}

\* A faulty producer link: a resumed generator gets the value ahead of the
\* values it already holds
gen_send_reordered(g, inst, outcome) ==
    IF g.state # "suspended" THEN [gen |-> g, exc |-> "TypeError"]
    ELSE IF outcome = "yield"
        THEN [gen |-> [g EXCEPT !.received = <<inst>> \o @], exc |-> ""]
    ELSE [gen |-> [g EXCEPT !.received = <<inst>> \o @, !.state = "finished"],
          exc |-> "Error"]

\* gen.send(inst).  `outcome` is what the generator body does when resumed
\* at its yield: "yield" again, "return", or raise "Error".  Yields [gen, exc].
gen_send(g, inst, outcome) ==
    CASE g.state = "none" -> [gen |-> g, exc |-> "AttributeError"]
      [] g.state = "unstarted" -> [gen |-> g, exc |-> "TypeError"]
      [] g.state = "finished" -> [gen |-> g, exc |-> "StopIteration"]
      [] g.state = "suspended" ->
            LET got == [g EXCEPT !.received = Append(@, inst)]
            IN  CASE outcome = "yield" -> [gen |-> got, exc |-> ""]
                  [] outcome = "return" ->
                        [gen |-> [got EXCEPT !.state = "finished"],
                         exc |-> "StopIteration"]
                  [] OTHER ->
                        [gen |-> [got EXCEPT !.state = "finished"], exc |-> "Error"]

\* gen.throw(Break()).  `outcome` is what the generator body does with the
\* Break raised at its yield: let it through ("Break"), catch it and
\* "return", catch it and "yield" again, raise "GeneratorExit" or raise
\* "Error".  Yields [gen, exc].
gen_throw(g, outcome) ==
    CASE g.state = "none" -> [gen |-> g, exc |-> "AttributeError"]
      [] g.state \in {"unstarted", "finished"} ->
            [gen |-> [g EXCEPT !.state = "finished"], exc |-> "Break"]
      [] g.state = "suspended" ->
            CASE outcome = "yield" -> [gen |-> g, exc |-> ""]
              [] outcome = "return" ->
                    [gen |-> [g EXCEPT !.state = "finished"], exc |-> "StopIteration"]
              [] OTHER -> [gen |-> [g EXCEPT !.state = "finished"], exc |-> outcome]

\* PushBase._init with a generator in state genstate
PushBase__init(s, genstate) ==
    [ sink |-> [s EXCEPT !.bound = TRUE, !.length = 0, !.finished = 0,
                         !.inits = @ + 1],
      gen |-> [state |-> genstate, received |-> <<>>] ]

\* A faulty append: the length is raised before the producer is resumed
AfterSend_counts_first(s, r) ==
    [sink |-> [s EXCEPT !.length = @ + 1], gen |-> r.gen, exc |-> r.exc]

\* line 605, after gen.send: r = [gen, exc]
AfterSend(s, r) ==
    IF r.exc # ""
        THEN [sink |-> s, gen |-> r.gen, exc |-> r.exc]
        ELSE [sink |-> [s EXCEPT !.length = @ + 1], gen |-> r.gen, exc |-> ""]

\* PushBase.append.  Yields [sink, gen, exc].
PushBase_append(s, g, inst, outcome) == AfterSend(s, gen_send(g, inst, outcome))

\* A faulty close: only Break is swallowed
AfterThrow_only_Break(s, r) ==
    IF r.exc # "" /\ r.exc # "Break"
        THEN [sink |-> s, gen |-> r.gen, exc |-> r.exc]
        ELSE [sink |-> [s EXCEPT !.finished = @ + 1], gen |-> r.gen, exc |-> ""]

\* A faulty close: every exception of the producer is swallowed
AfterThrow_swallows_all(s, r) ==
    [sink |-> [s EXCEPT !.finished = @ + 1], gen |-> r.gen, exc |-> ""]

\* lines 610-612, after gen.throw: r = [gen, exc]
AfterThrow(s, r) ==
    IF r.exc # "" /\ r.exc \notin Swallowed
        THEN [sink |-> s, gen |-> r.gen, exc |-> r.exc]
        ELSE [sink |-> [s EXCEPT !.finished = @ + 1], gen |-> r.gen, exc |-> ""]

\* PushBase.close.  Yields [sink, gen, exc].
PushBase_close(s, g, outcome) == AfterThrow(s, gen_throw(g, outcome))

\* PushBase.__len__
PushBase_len(s) == s.length

\* what the generator did in a call: the outcome chosen, where it had a choice
Did(g, outcome) == IF g.state = "suspended" THEN outcome ELSE "-"

\* the entry in the history of a call on the sink s that yielded
\* r = [sink, gen, exc]
PushEntry(op, inst, did, s, r) ==
    [ op |-> op, v |-> inst, did |-> did, exc |-> r.exc,
      fin |-> r.sink.finished - s.finished,
      len |-> PushBase_len(r.sink) ]

\* the append("x") call of the "append" callback, on x = [sink, gen]:
\* r is what the call yielded
CallbackAppended(x, r, outcome) ==
    [ sink |-> r.sink, gen |-> r.gen, exc |-> r.exc,
      ret |-> IF r.exc = "" THEN "deferred" ELSE PyNone,
      calls |-> <<PushEntry("append", "x", Did(x.gen, outcome), x.sink, r)>> ]

\* self._cb(self) on x = [sink, gen].  Yields [sink, gen, exc, ret, calls]:
\* calls are the calls the callback made on the sink.
Callback(cb, x, outcome) ==
    CASE cb = "append" ->
            CallbackAppended(x, PushBase_append(x.sink, x.gen, "x", outcome),
                             outcome)
      [] cb = "raise" ->
            [sink |-> x.sink, gen |-> x.gen, exc |-> "Error", ret |-> PyNone,
             calls |-> <<>>]
      [] OTHER ->
            [sink |-> x.sink, gen |-> x.gen, exc |-> "", ret |-> "deferred",
             calls |-> <<>>]

\* lines 597-598, after _init yielded x = [sink, gen]
AfterInit(x, outcome) ==
    IF x.sink._cb # PyNone
        THEN Callback(x.sink._cb, x, outcome)
        ELSE [sink |-> x.sink, gen |-> x.gen, exc |-> "", ret |-> PyNone,
              calls |-> <<>>]

\* PushBase.init with a generator in state genstate; `outcome` is what the
\* generator does when the callback resumes it.
\* Yields [sink, gen, exc, ret, calls].
PushBase_init(s, genstate, outcome) ==
    AfterInit(PushBase__init(s, genstate), outcome)

\* the sinks PushBase(callback=cb) makes, cb from cbs
InitPushWith(cbs) ==
    /\ sink \in {PushBase_new(cb) : cb \in cbs}
    /\ gen = NoGen
    /\ pcalls = <<>>

\* PushBase()
InitPush == InitPushWith({PyNone})

PushInitTo(r) ==
    /\ sink' = [r.sink EXCEPT !.ret = r.ret, !.exc = r.exc]
    /\ gen' = r.gen
    /\ pcalls' = r.calls

PushInit(genstate, outcome) ==
    /\ \E r \in {PushBase_init(sink, genstate, outcome)} : PushInitTo(r)
    /\ UNCHANGED <<wvars, rn, fvars>>

\* the sink after a call that yielded r = [sink, gen, exc], and the call's
\* entry in the history
PushCalled(op, inst, did, r) ==
    /\ sink' = r.sink
    /\ gen' = r.gen
    /\ pcalls' = Append(pcalls, PushEntry(op, inst, did, sink, r))
    /\ UNCHANGED <<wvars, rn, fvars>>

PushAppend(inst, outcome) ==
    PushCalled("append", inst, Did(gen, outcome),
               PushBase_append(sink, gen, inst, outcome))

PushClose(outcome) ==
    PushCalled("close", "", Did(gen, outcome), PushBase_close(sink, gen, outcome))

----------------------------------------------------------------------------
(* A validate_native call *)

NoValidate == [cls |-> 0, val |-> PyNone, ret |-> "", exc |-> "", done |-> FALSE]

ValidateReturned(c, value, r) ==
    vn' = [cls |-> c, val |-> value, ret |-> r.ret, exc |-> r.exc, done |-> TRUE]

\* the program calls c.validate_native(c, value)
Validate(c, value) ==
    /\ \E r \in {validate_native(World, c, value)} : ValidateReturned(c, value, r)
    /\ UNCHANGED <<wvars, rn, pvars, pa, ps>>

----------------------------------------------------------------------------
(* apply_pssm *)

\* A Python object as apply_pssm sees it: kind is "None", "str", "int",
\* "list" or "instance", cls the name of its class, v the string or number
\* it holds, or the identity of the instance
NoneVal == [kind |-> "None", cls |-> "NoneType", v |-> "None"]
StrVal(x) == [kind |-> "str", cls |-> "str", v |-> x]
IntVal(x) == [kind |-> "int", cls |-> "int", v |-> x]
ListVal(x) == [kind |-> "list", cls |-> "list", v |-> x]
InstanceOf(c, id) == [kind |-> "instance", cls |-> c, v |-> id]

\* the compound option classes of the module: xml, table, json, msgpack
OptionNames == <<"xml", "table", "json", "msgpack">>
OptionClasses == {OptionNames[i] : i \in 1..MaxOptions}

\* val_c(): every option class can be made without arguments
NewInstance(c) == InstanceOf(c, "<new>")

\* hash(val) raises TypeError
Unhashable(val) == val.kind = "list"

\* pssm_map.get(val, None) finds an entry: the keys are strings
IsKey(val, pssm_map) == val.kind = "str" /\ val.v \in DOMAIN pssm_map

\* isinstance(val, tuple(pssm_map.values()))
IsInstance(val, pssm_map) ==
    val.kind = "instance" /\ \E k \in DOMAIN pssm_map : pssm_map[k] = val.cls

\* apply_pssm(val, pssm_map).  Yields [ret, exc].
apply_pssm(val, pssm_map) ==
    IF val = NoneVal THEN [ret |-> NoneVal, exc |-> ""]
    ELSE IF Unhashable(val) THEN [ret |-> NoneVal, exc |-> "TypeError"]
    ELSE IF IsKey(val, pssm_map)
        THEN [ret |-> NewInstance(pssm_map[val.v]), exc |-> ""]
    ELSE IF IsInstance(val, pssm_map) THEN [ret |-> val, exc |-> ""]
    ELSE [ret |-> NoneVal, exc |-> "AssertionError"]

NoPssm ==
    [val |-> NoneVal, map |-> EmptyDict, ret |-> NoneVal, exc |-> "", done |-> FALSE]

PssmReturned(r) ==
    ps' = [ps EXCEPT !.ret = r.ret, !.exc = r.exc, !.done = TRUE]

\* the program calls apply_pssm(ps.val, ps.map)
ApplyPssm ==
    /\ ~ps.done
    /\ \E r \in {apply_pssm(ps.val, ps.map)} : PssmReturned(r)
    /\ UNCHANGED <<wvars, rn, pvars, pa, vn>>

----------------------------------------------------------------------------
(* A _decode_pa_dict call *)

NoDecode == [d |-> <<>>, out |-> EmptyDict, done |-> FALSE]

Decode ==
    /\ ~pa.done
    /\ pa' = [pa EXCEPT !.out = _decode_pa_dict(pa.d), !.done = TRUE]
    /\ UNCHANGED <<wvars, rn, pvars, ps, vn>>

----------------------------------------------------------------------------
(* Specifications *)

Classes == 1..Len(classes)
Nullability == {PyNone, PyTrue, PyFalse}

Init ==
    /\ InitWorld
    /\ rn = NoResolve
    /\ InitPush
    /\ pa = NoDecode
    /\ ps = NoPssm
    /\ vn = NoValidate

\* The descriptor world under every kind of override and client mutation
Next ==
    \/ \E c \in Classes, kw \in Kwargs :
            Len(classes) < MaxClasses /\ Customize(c, kw)
    \/ \E a, b \in Nullability :
            Len(classes) < MaxClasses /\ Define(a, b)
    \/ \E c \in Classes, v \in Nullability :
            nmut < MaxMutations /\ SetNullable(c, v)
    \/ \E c \in Classes, v \in Nullability :
            nmut < MaxMutations /\ SetNillable(c, v)
    \/ \E c \in Classes : nmut < MaxMutations /\ MutateTranslations(c, "en")
    \/ \E c \in Classes : nmut < MaxMutations /\ MutateColumnArgs(c, "index")
    \/ \E v \in {PyTrue, PyFalse} : nmut < MaxMutations /\ SetNullableDefault(v)

Spec == Init /\ [][Next]_vars

\* The nullable / nillable alias pair: definitions, overrides, assignments
KwargsNull ==
    { <<>>,
      <<KW("nullable", PyFalse)>>,
      <<KW("nillable", PyFalse)>>,
      <<KW("nillable", PyTrue)>>,
      <<KW("nullable", PyTrue), KW("nillable", PyFalse)>>,
      <<KW("nillable", PyTrue), KW("nullable", PyFalse)>> }

NextNull ==
    \/ \E c \in Classes, kw \in KwargsNull :
            Len(classes) < MaxNullClasses /\ Customize(c, kw)
    \/ \E a, b \in Nullability :
            Len(classes) < MaxNullClasses /\ Define(a, b)
    \/ \E c \in Classes, v \in Nullability :
            nmut < MaxAssignments /\ SetNullable(c, v)
    \/ \E c \in Classes, v \in Nullability :
            nmut < MaxAssignments /\ SetNillable(c, v)
    \/ \E v \in {PyTrue, PyFalse} : nmut < MaxAssignments /\ SetNullableDefault(v)

SpecNull == Init /\ [][NextNull]_vars

\* Chains of customize() calls with plain constraint overrides
KwargsChain ==
    { <<>>,
      <<KW("min_occurs", "1")>>,
      <<KW("max_occurs", "2")>>,
      <<KW("max_occurs", "unbounded")>>,
      <<KW("max_occurs", "inf")>>,
      <<KW("max_occurs", FloatInf)>>,
      <<KW("values", "{a}")>>,
      <<KW("min_occurs", "2"), KW("values", "{}")>> }

NextChain ==
    \E c \in Classes, kw \in KwargsChain :
        Len(classes) < MaxChainClasses /\ Customize(c, kw)

SpecChain == Init /\ [][NextChain]_vars

\* resolve_namespace on a graph of defined classes, cycles included
Nodes == 3..(MaxNodes + 2)

\* the module after the class statements of a graph of MaxNodes classes,
\* their namespaces drawn from nss and their values from vals
InitGraphIn(nss, vals, mods) ==
    /\ \E ns \in [Nodes -> nss],
          ext \in [Nodes -> {0} \cup Nodes],
          values \in [Nodes -> vals],
          mod \in [Nodes -> mods] :
            /\ classes = <<ModelBaseClass, SimpleModelClass>> \o
                    [i \in 1..MaxNodes |->
                        [DefinedClass(i + 2, ns[i + 2], ext[i + 2])
                            EXCEPT !.__module__ = mod[i + 2]]]
            /\ attrs = <<ModelBaseAttributes, SimpleModelAttributes>> \o
                    [i \in 1..MaxNodes |-> DefinedAttributes(values[i + 2])]
            /\ annots = <<ModelBaseAnnotations, NoAnnotations>> \o
                    [i \in 1..MaxNodes |-> NoAnnotations]
            /\ hist = <<ModelBaseHist, SimpleModelHist>> \o
                    [i \in 1..MaxNodes |->
                        [SimpleModelHist EXCEPT !.expect["values"] =
                            IF values[i + 2] = PyNone THEN "{}" ELSE values[i + 2]]]
    /\ heap = <<>>
    /\ NULLABLE_DEFAULT = PyTrue
    /\ last = NoCall
    /\ nmut = 0
    /\ rn = NoResolve
    /\ InitPush
    /\ pa = NoDecode
    /\ ps = NoPssm
    /\ vn = NoValidate

\* the classes of a graph defined in the module __main__
InitGraph(nss, vals) == InitGraphIn(nss, vals, {<<"__main__">>})

InitResolve == InitGraph({PyNone, DEFAULT_NS, xsd, "app"}, {PyNone, "{a}"})

NextResolve ==
    \/ \E c \in Nodes, default_ns \in {PyNone, "tns"} : ResolveStart(c, default_ns)
    \/ ResolveStep

SpecResolve == InitResolve /\ [][NextResolve]_vars /\ WF_vars(ResolveStep)

\* resolve_namespace on every extends graph, each class with a namespace
\* of its own or none; a call that started keeps running its frames
InitCycle == InitGraph({PyNone, "app"}, {PyNone})

SpecCycle == InitCycle /\ [][NextResolve]_vars /\ WF_vars(ResolveStep)

\* resolve_namespace on graphs of non-default classes without a usable
\* namespace of their own (None, the sentinel, empty, or a well-known one),
\* defined in __main__ or in the module app._base
InitUnresolved ==
    InitGraphIn({PyNone, DEFAULT_NS, "", xsd}, {"{a}"},
                {<<"__main__">>, <<"app", "_base">>})

SpecUnresolved == InitUnresolved /\ [][NextResolve]_vars

\* The push sink
Count(op) == Cardinality({i \in DOMAIN pcalls : pcalls[i].op = op})

\* the construction callbacks of the sinks (PyNone: none)
Callbacks == {PyNone, "append", "return", "raise"}

InitSinks ==
    /\ InitWorld
    /\ rn = NoResolve
    /\ InitPushWith(Callbacks)
    /\ pa = NoDecode
    /\ ps = NoPssm
    /\ vn = NoValidate

NextPush ==
    \/ \E g \in {"unstarted", "suspended"}, o \in {"yield", "return", "raise"} :
            sink.inits < MaxInits /\ PushInit(g, o)
    \/ \E v \in {"x", "y"}, o \in {"yield", "return", "raise"} :
            Count("append") < MaxAppends /\ PushAppend(v, o)
    \/ \E o \in {"Break", "return", "yield", "GeneratorExit", "Error"} :
            Count("close") < MaxCloses /\ PushClose(o)

SpecPush == InitSinks /\ [][NextPush]_vars

\* _decode_pa_dict on every small dict
PaKeys ==
    { PlainKey("a"), PlainKey("b"),
      [kind |-> "tuple", elems |-> <<"a", "b">>],
      [kind |-> "tuple", elems |-> <<"a">>],
      [kind |-> "tuple", elems |-> <<"b", "c">>],
      [kind |-> "frozenset", elems |-> <<"a", "b">>] }

PaDicts ==
    { d \in UNION { [1..n -> [key : PaKeys, val : {"1", "2"}]] : n \in 0..MaxEntries } :
        \A i, j \in DOMAIN d : i # j => d[i].key # d[j].key }

InitPa ==
    /\ InitWorld
    /\ rn = NoResolve
    /\ InitPush
    /\ \E d \in PaDicts : pa = [NoDecode EXCEPT !.d = d]
    /\ ps = NoPssm
    /\ vn = NoValidate

SpecPa == InitPa /\ [][Decode]_vars

\* validate_native on descriptors with and without a value set, nulls
\* allowed or not
KwargsValidate ==
    { <<KW("values", "{a}")>>,
      <<KW("values", "{}")>>,
      <<KW("nullable", PyFalse)>>,
      <<KW("values", "{a,b}"), KW("nillable", PyFalse)>>,
      <<KW("values", "{a}"), KW("nullable", PyTrue)>> }

NativeValues == {PyNone, "a", "b", "[a]"}

NextValidate ==
    \/ \E c \in Classes, kw \in KwargsValidate :
            Len(classes) < MaxValidateClasses /\ Customize(c, kw)
    \/ \E v \in {PyTrue, PyFalse} : nmut < MaxMutations /\ SetNullableDefault(v)
    \/ \E c \in Classes, value \in NativeValues : Validate(c, value)

SpecValidate == Init /\ [][NextValidate]_vars

\* apply_pssm on every small map and value
PssmVals ==
    {NoneVal, IntVal("42"), ListVal("[xml]"), StrVal("yaml")}
        \cup {StrVal(c) : c \in OptionClasses}
        \cup {InstanceOf(c, "obj") : c \in OptionClasses}

PssmMaps ==
    UNION {[K -> OptionClasses] : K \in SUBSET OptionClasses}

InitPssm ==
    /\ InitWorld
    /\ rn = NoResolve
    /\ InitPush
    /\ pa = NoDecode
    /\ vn = NoValidate
    /\ \E val \in PssmVals, m \in PssmMaps :
            ps = [NoPssm EXCEPT !.val = val, !.map = m]

SpecPssm == InitPssm /\ [][ApplyPssm]_vars

----------------------------------------------------------------------------
(* What a client can read on a descriptor *)

\* getattr(cls.Attributes, k, <no attribute>)
ReadAttr(w, c, k) ==
    IF HasAttr(w, "attrs", c, k) THEN AttrGet(w, c, k) ELSE "<no attribute>"

\* cls.Attributes.translations, by value
ReadTranslations(w, c) ==
    IF AttrGet(w, c, "translations") = 0
        THEN [none |-> TRUE, items |-> EmptyDict]
        ELSE [none |-> FALSE, items |-> w.heap[AttrGet(w, c, "translations")]]

\* cls.Attributes.sqla_column_args, by value
ReadColumnArgs(w, c) ==
    IF AttrGet(w, c, "sqla_column_args").none
        THEN [none |-> TRUE, t |-> <<>>, kwargs |-> EmptyDict]
        ELSE [none |-> FALSE, t |-> AttrGet(w, c, "sqla_column_args").t,
              kwargs |-> w.heap[AttrGet(w, c, "sqla_column_args").d]]

\* every constraint value readable on cls.Attributes
AttributesView(w, c) ==
    [ nullable |-> get_nullable(w, c),
      nillable |-> get_nillable(w, c),
      plain |-> [k \in PlainKeys |-> ReadAttr(w, c, k)],
      translations |-> ReadTranslations(w, c),
      sqla_column_args |-> ReadColumnArgs(w, c),
      prot_attrs |-> AttrGet(w, c, "prot_attrs") ]

\* every field readable on the descriptor cls
DescriptorView(w, c) ==
    [ namespace |-> ClsGet(w, c, "__namespace__"),
      type_name |-> ClsGet(w, c, "__type_name__"),
      extends |-> ClsGet(w, c, "__extends__"),
      orig |-> ClsGet(w, c, "__orig__"),
      Attributes |-> AttributesView(w, c),
      doc |-> AnnotGet(w, c, "doc"),
      appinfo |-> AnnotGet(w, c, "appinfo") ]

\* the step is a client-side mutation of the constraint record of class r
MutatesRecordOf(r) ==
    /\ nmut' = nmut + 1
    /\ last'.cls = r
    /\ last'.op \in {"nullable=", "nillable=", "translations[]=",
                    "sqla_column_args[-1][]="}

----------------------------------------------------------------------------
(* Claims *)

\* C1: the constraint record of D.customize(...) is an instance distinct
\* from D's, and no mutation of the result's record (an assignment to a
\* field, an in-place change of its translations or column-argument
\* containers) changes a constraint value readable on D.
C1_MutationIsolation ==
    [][ /\ (last'.op = "customize" /\ last'.ret # 0 => last'.ret # last'.cls)
        /\ \A r \in Classes :
              classes[r].customized /\ MutatesRecordOf(r) =>
                 AttributesView(World, classes[r].base)'
                    = AttributesView(World, classes[r].base) ]_vars

\* C2: customize() leaves every field of the descriptor it is called on
\* as it was before the call.
C2_CallerUnchanged ==
    [][ \A D \in Classes :
            last'.op = "customize" /\ last'.cls = D =>
                DescriptorView(World, D)' = DescriptorView(World, D) ]_vars

\* C3: nullable and nillable always read the same value, and once either
\* name was assigned True or False (by a class body, a customize() override
\* or an assignment) both read the value assigned last; after an assignment
\* of None (unset) both read the process-wide default.
C3_AliasSync ==
    \A c \in Classes :
        /\ get_nullable(World, c) = get_nillable(World, c)
        /\ hist[c].nullability \in {PyTrue, PyFalse} =>
              /\ get_nullable(World, c) = hist[c].nullability
              /\ get_nillable(World, c) = hist[c].nullability
        /\ hist[c].nullability = PyNone =>
              /\ get_nullable(World, c) = NULLABLE_DEFAULT
              /\ get_nillable(World, c) = NULLABLE_DEFAULT

\* C3 happens: a class customized with nillable first and nullable=False
\* last was then assigned nillable = True, and reads True under both names
C3_Witness ==
    \E c \in Classes :
        /\ classes[c].customized
        /\ last.op = "nillable=" /\ last.cls = c /\ last.kw[1].v = PyTrue
        /\ attrs[c]._nullable = PyTrue
        /\ get_nullable(World, c) = PyTrue
        /\ NULLABLE_DEFAULT = PyFalse

\* C4: along a chain of customize() calls with plain constraint overrides,
\* every descriptor reads, for each key, the value of the latest override
\* of the chain that set it (an unbounded max_occurs in its canonical form),
\* else the value the start of the chain has.
C4_OverridesAccumulate ==
    \A c \in Classes : \A k \in PlainKeys :
        ReadAttr(World, c, k) = hist[c].expect[k]

\* C4 happens: D.customize(min_occurs=1).customize(max_occurs=2) reads both
C4_Witness ==
    \E c \in Classes :
        /\ classes[c].customized /\ classes[classes[c].base].customized
        /\ "min_occurs" \notin attrs[c].own
        /\ "min_occurs" \in attrs[classes[c].base].own
        /\ "max_occurs" \in attrs[c].own
        /\ ReadAttr(World, c, "min_occurs") = "1"
        /\ ReadAttr(World, c, "max_occurs") = "2"

\* C5: the __orig__ of a descriptor made by a chain of customize() calls is
\* the descriptor the chain started from; that of a descriptor no
\* customize() call made is None.
C5_Lineage ==
    \A c \in Classes :
        IF classes[c].customized
            THEN ClsGet(World, c, "__orig__") = classes[c].root
            ELSE ClsGet(World, c, "__orig__") = 0

\* C5 happens: a descriptor customized from a customized descriptor
C5_Witness ==
    \E c \in Classes :
        /\ classes[c].customized /\ classes[classes[c].base].customized
        /\ classes[classes[classes[c].base].base].customized
        /\ ClsGet(World, c, "__orig__") = classes[c].root
        /\ classes[c].root \notin {c, classes[c].base}

\* no class got past the visited-set guard twice within the call
VisitedOnce ==
    \A i, j \in DOMAIN rn.visits : rn.visits[i] = rn.visits[j] => i = j

\* the only exception that leaves the call is the ValueError of line 341,
\* for a namespace that stays empty because no default_ns was given
RaisesOnlyUnresolved ==
    rn.pc = "raised" =>
        /\ rn.exc = "ValueError"
        /\ NoneOrEmpty(rn.default_ns)
        /\ NoneOrEmpty(Namespace(World, rn.cls))

\* C6: a resolve_namespace call on an extends graph, cycles and shared
\* ancestors included, gets every class past the visited-set guard at most
\* once, enters one frame per class at most, raises nothing but the
\* ValueError of an unresolvable namespace (never with a usable default_ns),
\* and always comes to its end.
C6_CyclicResolveTerminates ==
    /\ [](VisitedOnce /\ RaisesOnlyUnresolved /\ rn.depth <= Len(rn.visits))
    /\ (rn.pc = "run") ~> (rn.pc \in {"done", "raised"})

\* C6 happens: the call went round a cycle of two classes back to the class
\* it started on, was short-circuited there and returned
C6_Witness ==
    /\ rn.pc = "done" /\ rn.ret = PyTrue
    /\ Len(rn.visits) = 2 /\ rn.depth = 2
    /\ rn.cls = rn.visits[1]
    /\ ClsGet(World, rn.visits[1], "__extends__") = rn.visits[2]
    /\ ClsGet(World, rn.visits[2], "__extends__") = rn.visits[1]

\* the append calls that resumed the producer, in call order
Delivered == SelectSeq(pcalls, LAMBDA e : e.op = "append" /\ e.did # "-")

\* the append calls that returned
Returned == {i \in DOMAIN pcalls : pcalls[i].op = "append" /\ pcalls[i].exc = ""}

\* len(sink) before call i
LenBefore(i) == IF i = 1 THEN 0 ELSE pcalls[i - 1].len

\* C7: on a bound sink the producer received the appended values in call
\* order, each once; every append that returned raised the length by one,
\* no call lowers it, and after n appends that all returned the producer
\* holds exactly v1 .. vn and len(sink) = n.
C7_AppendOrder ==
    sink.bound =>
        /\ gen.received = [i \in DOMAIN Delivered |-> Delivered[i].v]
        /\ \A i \in DOMAIN pcalls :
              /\ pcalls[i].len >= LenBefore(i)
              /\ i \in Returned => pcalls[i].len = LenBefore(i) + 1
        /\ PushBase_len(sink) = Cardinality(Returned)
        /\ Returned = DOMAIN pcalls =>
              /\ gen.received = [i \in DOMAIN pcalls |-> pcalls[i].v]
              /\ PushBase_len(sink) = Len(pcalls)

\* C7 happens: append("x"), append("y"), append("x") on a bound sink
C7_Witness ==
    /\ sink.bound /\ gen.state = "suspended"
    /\ Len(pcalls) = 3 /\ Returned = 1..3
    /\ gen.received = <<"x", "y", "x">>
    /\ PushBase_len(sink) = 3

\* what the producer did on the cancellation: it let Break through, caught
\* it and returned, raised GeneratorExit, or had no frame left to resume
Terminated == {"Break", "return", "GeneratorExit", "-"}

\* C8: a close() on a bound sink whose producer ends on the cancellation
\* (normally, or by letting the cancellation through) raises nothing and
\* calls the bound on_finish callback exactly once.
C8_CloseFinishes ==
    sink.bound =>
        \A i \in DOMAIN pcalls :
            pcalls[i].op = "close" /\ pcalls[i].did \in Terminated =>
                pcalls[i].exc = "" /\ pcalls[i].fin = 1

\* C8 happens: after two appends the producer caught the cancellation
\* and returned
C8_Witness ==
    /\ sink.bound /\ Len(pcalls) = 3
    /\ pcalls[1].op = "append" /\ pcalls[2].op = "append"
    /\ pcalls[3].op = "close" /\ pcalls[3].did = "return"
    /\ gen.state = "finished" /\ sink.finished = 1

\* the keywords give nullable and nillable different values
Conflicting(kw) ==
    \E i, j \in DOMAIN kw :
        /\ kw[i].k = "nullable" /\ kw[j].k = "nillable"
        /\ kw[i].v # PyNone /\ kw[j].v # PyNone /\ kw[i].v # kw[j].v

\* C9: a class body or a customize() call that gives nullable and nillable
\* different values fails with ConfigurationError and makes no descriptor.
C9_ConflictRejected ==
    last.op \in {"customize", "define"} /\ Conflicting(last.kw) =>
        last.exc = "ConfigurationError" /\ last.ret = 0

\* the entries of the decoded dict whose key is a tuple / is no tuple
TupleEntries == {i \in DOMAIN pa.d : IsTuple(pa.d[i].key)}
OtherEntries == DOMAIN pa.d \ TupleEntries

\* the members of the key of entry i
Members(i) == {pa.d[i].key.elems[j] : j \in DOMAIN pa.d[i].key.elems}

\* the entries whose key is a grouping (a tuple or a set) / an identifier
GroupEntries == {i \in DOMAIN pa.d : pa.d[i].key.kind # "plain"}
PlainEntries == DOMAIN pa.d \ GroupEntries

\* some entry of `among` has the identifier m as its key
HasPlain(m, among) == \E j \in among : pa.d[j].key = PlainKey(m)

\* C10 as stated: every member of every grouping key (set or tuple) maps
\* to that entry's value unless the identifier is a plain key too, every
\* plain key maps to its value, and the result has no other keys.
C10_FlattensGroupings ==
    pa.done =>
        /\ \A i \in GroupEntries : \A m \in Members(i) :
              ~HasPlain(m, PlainEntries) =>
                  /\ PlainKey(m) \in DOMAIN pa.out
                  /\ pa.out[PlainKey(m)] = pa.d[i].val
        /\ \A i \in PlainEntries :
              /\ pa.d[i].key \in DOMAIN pa.out
              /\ pa.out[pa.d[i].key] = pa.d[i].val
        /\ DOMAIN pa.out =
              {PlainKey(m) : m \in UNION {Members(i) : i \in GroupEntries}}
                 \cup {pa.d[i].key : i \in PlainEntries}

\* C10, amended: only tuple keys are groupings.  Every member of a tuple
\* key maps to the value of the last tuple entry, in iteration order, that
\* holds it, unless the identifier is a key of its own; every key that is
\* no tuple (an identifier, or a set, which is kept whole) maps to its own
\* value whatever the iteration order; the result has no other keys.
C10_FlattensTuples ==
    pa.done =>
        /\ \A i \in TupleEntries : \A m \in Members(i) :
              /\ PlainKey(m) \in DOMAIN pa.out
              /\ ( /\ ~HasPlain(m, OtherEntries)
                   /\ \A j \in TupleEntries : j > i => m \notin Members(j) )
                 => pa.out[PlainKey(m)] = pa.d[i].val
        /\ \A i \in OtherEntries :
              /\ pa.d[i].key \in DOMAIN pa.out
              /\ pa.out[pa.d[i].key] = pa.d[i].val
        /\ DOMAIN pa.out =
              {PlainKey(m) : m \in UNION {Members(i) : i \in TupleEntries}}
                 \cup {pa.d[i].key : i \in OtherEntries}

\* C10 happens: {"a": 2, ("a", "b"): 1}, the plain key first in iteration
\* order, decodes to a -> 2, b -> 1
C10_Witness ==
    /\ pa.done
    /\ Len(pa.d) = 2
    /\ pa.d[1].key = PlainKey("a") /\ pa.d[1].val = "2"
    /\ pa.d[2].key = [kind |-> "tuple", elems |-> <<"a", "b">>] /\ pa.d[2].val = "1"
    /\ pa.out = (PlainKey("a") :> "2") @@ (PlainKey("b") :> "1")

\* C11: apply_pssm(value, map) gives a new zero-argument instance of the
\* mapped option class when value is a key of the map, the same instance
\* when value is an instance of one of the map's option classes, and fails
\* with ConfigurationError otherwise.
C11_ApplyPssm ==
    ps.done =>
        IF ps.val.kind = "str" /\ ps.val.v \in DOMAIN ps.map
            THEN ps.exc = "" /\ ps.ret = InstanceOf(ps.map[ps.val.v], "<new>")
        ELSE IF /\ ps.val.kind = "instance"
                /\ \E k \in DOMAIN ps.map : ps.map[k] = ps.val.cls
            THEN ps.exc = "" /\ ps.ret = ps.val
        ELSE ps.exc = "ConfigurationError"

\* an explicit type name is set on the descriptor: __type_name__ holds a
\* name, not None and not the "no name yet" marker
HasTypeName(c) == ClsGet(World, c, "__type_name__") \notin {PyNone, Empty}

\* C12: get_type_name() gives the explicit type name of a descriptor that
\* has one and the class name of every other descriptor, whatever
\* customizations made it.
C12_TypeName ==
    \A c \in Classes :
        get_type_name(World, c) =
            IF HasTypeName(c) THEN ClsGet(World, c, "__type_name__")
                              ELSE classes[c].__name__

\* null is permitted by the nillable / nullable constraint of c
NullsPermitted(c) == get_nillable(World, c) = PyTrue

\* the base rule: the value is non-null, or null is permitted
BaseRule(c, value) == value # PyNone \/ NullsPermitted(c)

\* the value set of c is unset or empty
NoValueSet(c) ==
    AttrGet(World, c, "values") = PyNone \/ SetOf(AttrGet(World, c, "values")) = {}

\* the rule of the claim for a primitive descriptor
Accepts(c, value) ==
    /\ BaseRule(c, value)
    /\ \/ NoValueSet(c)
       \/ value = PyNone /\ NullsPermitted(c)
       \/ value \in SetOf(AttrGet(World, c, "values"))

\* the call returned the boolean the rule asks for and raised nothing
Decided(c, value, r) ==
    /\ r.exc = ""
    /\ r.ret \in {PyTrue, PyFalse}
    /\ r.ret = PyTrue <=> Accepts(c, value)

\* the step is a validate_native call on the primitive descriptor c
ValidatesPrimitive(c, value) ==
    /\ vn' # vn /\ vn'.cls = c /\ vn'.val = value
    /\ classes[c].kind = "SimpleModel"

\* C13: SimpleModel.validate_native returns a boolean, never
\* raises, and accepts a value exactly when the base rule holds and the
\* value set is empty or unset, or the value is a permitted null, or the
\* value is a member of the value set.
C13_ValidateNative ==
    [][ \A c \in Classes, value \in NativeValues :
            ValidatesPrimitive(c, value) => Decided(c, value, vn') ]_vars

\* the max_occurs values that mean "unbounded"
UnboundedSpellings == {"unbounded", "inf", FloatInf, DecimalInf}

\* the max_occurs override of the customize() call that made c
AskedMaxOccurs(c) == LastOf(hist[c].kw, {"max_occurs"}, "<none>", 1)

\* C14: a customize(max_occurs=v) call stores Decimal('inf') in the new
\* constraint record for every v that means unbounded, so any two such
\* records have equal max_occurs, and stores any other v as given.
C14_CanonicalUnbounded ==
    /\ \A c \in Classes :
          AskedMaxOccurs(c) # "<none>" =>
              /\ "max_occurs" \in attrs[c].own
              /\ attrs[c].max_occurs =
                    IF AskedMaxOccurs(c) \in UnboundedSpellings
                        THEN DecimalInf ELSE AskedMaxOccurs(c)
    /\ \A c, d \in Classes :
          /\ AskedMaxOccurs(c) \in UnboundedSpellings
          /\ AskedMaxOccurs(d) \in UnboundedSpellings
          => attrs[c].max_occurs = attrs[d].max_occurs

\* C14 happens: customize(max_occurs="unbounded") and
\* customize(max_occurs=float("inf")) made two records, another call
\* stored "2"
C14_Witness ==
    \E c, d, e \in Classes :
        /\ AskedMaxOccurs(c) = "unbounded" /\ AskedMaxOccurs(d) = FloatInf
        /\ AskedMaxOccurs(e) = "2"
        /\ attrs[c].max_occurs = DecimalInf /\ attrs[d].max_occurs = DecimalInf
        /\ attrs[e].max_occurs = "2"

\* the column keywords a customize(**kw) call itself asks for
ColumnKeywords(kw) ==
    { IF kw[i].k = "pk" THEN "primary_key" ELSE kw[i].k :
        i \in { j \in DOMAIN kw :
                  kw[j].k \in {"pk", "primary_key", "autoincrement",
                               "onupdate", "server_default"} } }

\* n has containers of its own, neither of them an object D reads, with
\* no entry but those the keywords kw ask for
FreshContainers(w, D, n, kw) ==
    /\ AttrGet(w, n, "translations") # 0
    /\ AttrGet(w, n, "translations") # AttrGet(w, D, "translations")
    /\ w.heap[AttrGet(w, n, "translations")] = EmptyDict
    /\ ~AttrGet(w, n, "sqla_column_args").none
    /\ AttrGet(w, n, "sqla_column_args").d
          # AttrGet(w, D, "sqla_column_args").d
    /\ DOMAIN w.heap[AttrGet(w, n, "sqla_column_args").d]
          \subseteq ColumnKeywords(kw)

\* C15: every customize() call, also one on a descriptor that customize()
\* made, gives the new constraint record a translations dict and a column
\* keyword dict of its own: not the objects the caller reads, and without
\* the caller's entries.
C15_FreshContainers ==
    [][ \A D \in Classes : \A n \in 1..(Len(classes) + 1) :
            /\ Len(classes') > Len(classes)
            /\ last'.op = "customize" /\ last'.cls = D /\ last'.ret = n
            => FreshContainers(World, D, n, last.kw)' ]_vars

RECURSIVE NeverSupplied(_)
\* neither name was supplied on c's constraint record nor on a record it
\* derives from: not in a class body, not as an override, not by assignment
NeverSupplied(c) ==
    /\ hist[c].nullability = "unset"
    /\ classes[c].base # 0 => NeverSupplied(classes[c].base)

\* C16: a constraint record on which nullable / nillable was never supplied,
\* also one that customize() made without such an override, reads the
\* process-wide default as it is at the time of the read; a record that was
\* given True or False reads that value whatever the default is.
C16_TriStateNillable ==
    \A c \in Classes :
        /\ NeverSupplied(c) => get_nillable(World, c) = NULLABLE_DEFAULT
        /\ hist[c].nullability \in {PyTrue, PyFalse} =>
              get_nillable(World, c) = hist[c].nullability

\* C17: a descriptor reads an __extends__ other than None only if it is
\* non-default; a primitive whose value set equals SimpleModel's has none,
\* also when it was customized from a non-default descriptor.
C17_ExtendsOnlyNonDefault ==
    \A c \in Classes :
        ClsGet(World, c, "__extends__") # 0 => ~is_default(World, c)

\* c has a namespace already: not None, not the sentinel, not empty
AlreadySet(c) == Namespace(World, c) \notin {PyNone, DEFAULT_NS, ""}

\* c has a well-known namespace and is not a default descriptor
Reclaimable(c) ==
    Namespace(World, c) \in const_prefmap /\ ~is_default(World, c)

\* C18: the frame of resolve_namespace that runs on a class with a namespace
\* already set leaves it as it is, whatever default_ns is, unless the
\* namespace is a well-known one and the class is non-default: then the
\* namespace is replaced by default_ns (and, default_ns being None or empty,
\* does not stay the well-known one).  A default class keeps a well-known
\* namespace, and no frame changes the namespace of another class.
C18_ReclaimOnlyCustomized ==
    [][ \A c \in Classes :
            c = rn.cls /\ Len(rn'.visits) = Len(rn.visits) + 1 =>
                /\ \A d \in Classes \ {c} :
                        Namespace(World, d)' = Namespace(World, d)
                /\ AlreadySet(c) /\ ~Reclaimable(c) =>
                        /\ Namespace(World, c)' = Namespace(World, c)
                        /\ rn'.pc # "raised"
                /\ AlreadySet(c) /\ Reclaimable(c)
                     /\ ~NoneOrEmpty(rn.default_ns) =>
                        Namespace(World, c)' = rn.default_ns
                /\ AlreadySet(c) /\ Reclaimable(c)
                     /\ NoneOrEmpty(rn.default_ns) =>
                        Namespace(World, c)' # Namespace(World, c) ]_vars

\* C18 happens: resolve_namespace(cls, "tns") ran on a non-default class
\* with the XML Schema namespace, which now reads "tns", and went on to the
\* default class it extends, which keeps the XML Schema namespace
C18_Witness ==
    /\ rn.pc = "done" /\ rn.default_ns = "tns" /\ Len(rn.visits) = 2
    /\ rn.was = <<xsd, xsd>>
    /\ ~is_default(World, rn.visits[1]) /\ is_default(World, rn.visits[2])
    /\ Namespace(World, rn.visits[1]) = "tns"
    /\ Namespace(World, rn.visits[2]) = xsd

\* what a producer that ends during close() did: the ways of Terminated,
\* or raising an exception of its own
Ended == Terminated \cup {"Error"}

\* C19: every close() on a bound sink in which the producer ends (by
\* returning, by letting the cancellation through, or by raising another
\* exception) calls the bound on_finish callback, and a close() calls
\* on_finish only when the producer has ended.
C19_FinishAfterProducer ==
    sink.bound =>
        \A i \in DOMAIN pcalls :
            pcalls[i].op = "close" =>
                /\ pcalls[i].did \in Ended => pcalls[i].fin = 1
                /\ pcalls[i].fin = 1 => pcalls[i].did \in Ended

\* C20: an exception the producer raises during close() that is not Break,
\* StopIteration or GeneratorExit leaves close() as it was raised.
C20_ClosePropagates ==
    sink.bound =>
        \A i \in DOMAIN pcalls :
            /\ pcalls[i].op = "close"
            /\ pcalls[i].did \notin Swallowed \cup {"return", "yield", "-"}
            => pcalls[i].exc = pcalls[i].did

\* C20 happens: after an append the producer answered the cancellation by
\* raising an exception of its own, which left close()
C20_Witness ==
    /\ sink.bound /\ Len(pcalls) = 2
    /\ pcalls[1].op = "append" /\ pcalls[1].exc = ""
    /\ pcalls[2].op = "close" /\ pcalls[2].did = "Error"
    /\ pcalls[2].exc = "Error" /\ gen.state = "finished"

\* the close() calls that returned
Closed == {i \in DOMAIN pcalls : pcalls[i].op = "close" /\ pcalls[i].exc = ""}

\* C21: once a close() on a bound sink has returned, no later append()
\* resumes the producer with its value or changes len(sink), whatever the
\* producer did with the cancellation.
C21_ClosedIsTerminal ==
    sink.bound =>
        \A i \in Closed : \A j \in DOMAIN pcalls :
            j > i /\ pcalls[j].op = "append" =>
                /\ pcalls[j].did = "-"
                /\ pcalls[j].len = LenBefore(j)

RECURSIVE ExtendsChain(_, _)
\* c and the classes reachable from it through __extends__, seen so far
ExtendsChain(c, seen) ==
    IF c = 0 \/ c \in seen THEN seen
    ELSE ExtendsChain(ClsGet(World, c, "__extends__"), seen \cup {c})

\* the namespace of c is resolved
Resolved(c) == Namespace(World, c) \notin {PyNone, DEFAULT_NS, ""}

\* the outermost resolve_namespace call returned True
ReturnedTrue == rn.pc = "done" /\ rn.ret = PyTrue /\ rn.exc = ""

\* C22: when resolve_namespace(D, default_ns) has returned True, D and
\* every class reachable from D through __extends__ has a namespace that is
\* not None, not the sentinel and not empty; every frame of the call, the
\* one that raises included, changes no class but its own, so when the call
\* raises for a class, the classes it would have reached after that class are
\* as they were before the call.
C22_ResolvedOnReturn ==
    /\ [](ReturnedTrue =>
            \A c \in ExtendsChain(rn.visits[1], {}) : Resolved(c))
    /\ [][ rn.pc = "run" =>
                /\ \A d \in Classes \ {rn.cls} :
                        classes'[d] = classes[d] /\ attrs'[d] = attrs[d]
                /\ rn'.pc = "raised" => rn'.cls = rn.cls ]_vars

\* C22 happens: resolve_namespace(D, "tns") returned True after it gave D,
\* which had no namespace and is defined in app._base, the namespace "app"
\* and the class D extends, which had the sentinel, the namespace "tns"
C22_Witness ==
    /\ ReturnedTrue /\ rn.default_ns = "tns" /\ Len(rn.visits) = 2
    /\ rn.was = <<PyNone, DEFAULT_NS>>
    /\ ClsGet(World, rn.visits[1], "__extends__") = rn.visits[2]
    /\ Namespace(World, rn.visits[1]) = "app"
    /\ Namespace(World, rn.visits[2]) = "tns"

\* the append calls in which gen.send raised
Failed == {i \in DOMAIN pcalls : pcalls[i].op = "append" /\ pcalls[i].exc # ""}

\* C23: len(sink) is the number of append() calls since init() in which the
\* producer took the value and yielded again.  An append() in which the
\* producer raises, or which finds it ended or not resumable, raises that
\* exception and leaves the length as it was; close() leaves it too.
C23_LengthCountsDeliveries ==
    /\ PushBase_len(sink) = Cardinality(DOMAIN pcalls \ Failed)
                              - Cardinality({i \in DOMAIN pcalls : pcalls[i].op = "close"})
    /\ \A i \in DOMAIN pcalls :
          /\ pcalls[i].op = "close" => pcalls[i].len = LenBefore(i)
          /\ pcalls[i].op = "append" =>
                /\ i \in Failed <=> pcalls[i].did # "yield"
                /\ i \in Failed => pcalls[i].len = LenBefore(i)
                /\ pcalls[i].did = "raise" => pcalls[i].exc = "Error"
                /\ pcalls[i].did = "return" => pcalls[i].exc = "StopIteration"

\* C23 happens: of three appends the first returned, the producer raised in
\* the second, and the third found the producer ended; len(sink) is 1
C23_Witness ==
    /\ sink.bound /\ Len(pcalls) = 3 /\ Failed = {2, 3}
    /\ pcalls[1].op = "append"
    /\ pcalls[2].did = "raise" /\ pcalls[2].exc = "Error"
    /\ pcalls[3].did = "-" /\ pcalls[3].exc = "StopIteration"
    /\ PushBase_len(sink) = 1

====
